---- MODULE Spec2Model ----
(***************************************************************************)
(* Model of uncpath: the UNC path parser (src/src/convert.rs), the mapping *)
(* table (src/src/mapping.rs) and the converter that composes them.        *)
(*                                                                         *)
(* A string is a sequence of one-character strings, so that prefixes,      *)
(* separators, trimming, splitting and lowercasing are computed character  *)
(* by character as the code computes them.                                 *)
(***************************************************************************)
EXTENDS Integers, Sequences, FiniteSets

VARIABLES
    mappings,   \* MappingTable.mappings: Vec<MountMapping>
    pre,        \* the value of mappings before the last operation
    op,         \* the last operation called ("init" after construction)
    arg,        \* its argument
    parsed,     \* convert_to_posix's local unc_path (result of parse_unc_path)
    ret,        \* its return value
    args,       \* run: the parsed command line (struct Args)
    environ,    \* run: UNCPATH_MAPPINGS and the file at --file
    pc,         \* run: the statement of run() to execute next
    idx,        \* run: the position of the loop over args.mapping
    stdout      \* run: the lines printed to standard output

\* the variables of one run of the program
run_vars == <<args, environ, pc, idx, stdout>>

vars == <<mappings, pre, op, arg, parsed, ret, args, environ, pc, idx, stdout>>

----------------------------------------------------------------------------
(* Bounds of the model *)

\* longest table the operations build
MaxMappings == 2
\* longest text after the prefix of a generated converter input
MaxBody == 5

----------------------------------------------------------------------------
(* Characters and strings *)

BS == "\\"
SL == "/"
NL == "\n"
SP == " "
COLON == ":"

\* char::is_whitespace, restricted to the characters of the model
IsWhitespace(c) == c \in {SP, NL}

UPPER == <<"A", "B", "C", "D", "E", "F", "G", "H", "I", "J", "K", "L", "M",
           "N", "O", "P", "Q", "R", "S", "T", "U", "V", "W", "X", "Y", "Z">>
LOWER == <<"a", "b", "c", "d", "e", "f", "g", "h", "i", "j", "k", "l", "m",
           "n", "o", "p", "q", "r", "s", "t", "u", "v", "w", "x", "y", "z">>

LowerOf == [c \in {UPPER[i] : i \in 1..Len(UPPER)} |->
               LOWER[CHOOSE i \in 1..Len(UPPER) : UPPER[i] = c]]

\* str::to_lowercase, one character (the ASCII letters)
ToLowerChar(c) == IF c \in DOMAIN LowerOf THEN LowerOf[c] ELSE c

\* str::to_lowercase
ToLowercase(s) == [i \in 1..Len(s) |-> ToLowerChar(s[i])]

\* str::starts_with
StartsWith(s, p) == Len(s) >= Len(p) /\ SubSeq(s, 1, Len(p)) = p

\* str::trim: both ends, every whitespace character
RECURSIVE TrimStart(_)
TrimStart(s) ==
    IF s # <<>> /\ IsWhitespace(Head(s)) THEN TrimStart(Tail(s)) ELSE s

RECURSIVE TrimEnd(_)
TrimEnd(s) ==
    IF s # <<>> /\ IsWhitespace(s[Len(s)])
    THEN TrimEnd(SubSeq(s, 1, Len(s) - 1))
    ELSE s

Trim(s) == TrimEnd(TrimStart(s))

\* a trim that removes one trailing slash only
TrimEndOneSlash(s) ==
    IF s # <<>> /\ s[Len(s)] = SL THEN SubSeq(s, 1, Len(s) - 1) ELSE s

\* str::trim_end_matches('/'): removes the pattern repeatedly from the end
RECURSIVE TrimEndMatchesSlash(_)
TrimEndMatchesSlash(s) ==
    IF s # <<>> /\ s[Len(s)] = SL
    THEN TrimEndMatchesSlash(SubSeq(s, 1, Len(s) - 1))
    ELSE s

\* str::replace('\\', "/")
ReplaceBackslash(s) == [i \in 1..Len(s) |-> IF s[i] = BS THEN SL ELSE s[i]]

\* str::split(':').collect(): the parts between the colons, empty parts kept
RECURSIVE SplitColon(_)
SplitColon(s) ==
    IF \A i \in 1..Len(s) : s[i] # COLON
    THEN <<s>>
    ELSE LET k == CHOOSE i \in 1..Len(s) :
                      s[i] = COLON /\ \A j \in 1..(i - 1) : s[j] # COLON
         IN  <<SubSeq(s, 1, k - 1)>> \o SplitColon(SubSeq(s, k + 1, Len(s)))

----------------------------------------------------------------------------
(* The three anchored patterns of convert.rs: a prefix, one or more        *)
(* characters other than c, c, one or more characters other than c, then   *)
(* any characters up to the end of the text                                *)

\* The ways the pattern with prefix p and separator c matches all of s: <<i, j>>
\* where group 1 is s[Len(p)+1..i], s[i+1] = c, group 2 is s[i+2..j] and group 3
\* is the rest, which holds no line feed since '.' does not match one.
Matches(s, p, c) ==
    IF ~StartsWith(s, p) THEN {}
    ELSE UNION {
           {<<i, j>> : j \in {j \in (i + 2)..Len(s) :
                                 /\ \A k \in (i + 2)..j : s[k] # c
                                 /\ \A k \in (j + 1)..Len(s) : s[k] # NL}} :
           i \in {i \in (Len(p) + 1)..(Len(s) - 1) :
                    /\ \A k \in (Len(p) + 1)..i : s[k] # c
                    /\ s[i + 1] = c}}

\* Regex::captures: the greedy match (longest group 1, then longest group 2)
Captures(s, p, c) ==
    LET ms == Matches(s, p, c) IN
    IF ms = {} THEN [matched |-> FALSE]
    ELSE LET m == CHOOSE x \in ms :
                      \A y \in ms : \/ y[1] < x[1]
                                    \/ (y[1] = x[1] /\ y[2] <= x[2])
         IN  [matched |-> TRUE,
              g1 |-> SubSeq(s, Len(p) + 1, m[1]),
              g2 |-> SubSeq(s, m[1] + 2, m[2]),
              g3 |-> SubSeq(s, m[2] + 1, Len(s))]

WINDOWS_PREFIX == <<BS, BS>>
SMB_PREFIX == <<"s", "m", "b", COLON, SL, SL>>
UNIX_PREFIX == <<SL, SL>>

WINDOWS_UNC_RE(s) == Captures(s, WINDOWS_PREFIX, BS)
\* the SMB pattern written with the separator of the Windows one
SMB_URL_RE_backslash(s) == Captures(s, SMB_PREFIX, BS)

SMB_URL_RE(s) == Captures(s, SMB_PREFIX, SL)
UNIX_STYLE_RE(s) == Captures(s, UNIX_PREFIX, SL)

----------------------------------------------------------------------------
(* Parser *)

UncPath(host, share, path) ==
    [kind |-> "Ok", host |-> host, share |-> share, path |-> path]

InvalidFormat(grammar, text) ==
    [kind |-> "InvalidFormat", grammar |-> grammar, text |-> text]

\* parse_windows_unc that leaves the backslashes of the rest in place
parse_windows_unc_no_replace(input) ==
    LET caps == WINDOWS_UNC_RE(input) IN
    IF caps.matched
    THEN UncPath(caps.g1, caps.g2, caps.g3)
    ELSE InvalidFormat("windows", input)

parse_windows_unc(input) ==
    LET caps == WINDOWS_UNC_RE(input) IN
    IF caps.matched
    THEN UncPath(caps.g1, caps.g2, ReplaceBackslash(caps.g3))
    ELSE InvalidFormat("windows", input)

parse_smb_url(input) ==
    LET caps == SMB_URL_RE(input) IN
    IF caps.matched
    THEN UncPath(caps.g1, caps.g2, caps.g3)
    ELSE InvalidFormat("smb", input)

parse_unix_style(input) ==
    LET caps == UNIX_STYLE_RE(input) IN
    IF caps.matched
    THEN UncPath(caps.g1, caps.g2, caps.g3)
    ELSE InvalidFormat("unix", input)

\* parse_unc_path that tests the prefixes of the untrimmed input
parse_unc_path_no_trim(raw) ==
    IF StartsWith(raw, WINDOWS_PREFIX) THEN parse_windows_unc(raw)
    ELSE IF StartsWith(raw, SMB_PREFIX) THEN parse_smb_url(raw)
    ELSE IF StartsWith(raw, UNIX_PREFIX) THEN parse_unix_style(raw)
    ELSE InvalidFormat("none", raw)

parse_unc_path(raw) ==
    LET input == Trim(raw) IN
    IF StartsWith(input, WINDOWS_PREFIX) THEN parse_windows_unc(input)
    ELSE IF StartsWith(input, SMB_PREFIX) THEN parse_smb_url(input)
    ELSE IF StartsWith(input, UNIX_PREFIX) THEN parse_unix_style(input)
    ELSE InvalidFormat("none", input)

----------------------------------------------------------------------------
(* Mapping table *)

MountMapping(host, share, mount_point) ==
    [host |-> host, share |-> share, mount_point |-> mount_point]

\* MappingTable::new
new == <<>>

\* MappingTable::add_mapping: the table after the push
add_mapping(table, host, share, mount_point) ==
    Append(table, MountMapping(host, share, mount_point))

\* MappingTable::with_defaults
with_defaults ==
    add_mapping(
        add_mapping(new, <<"s", "e", "r", "v", "e", "r">>,
                    <<"s", "h", "a", "r", "e", "d">>,
                    <<SL, "m", "n", "t", SL, "s", "h", "a", "r", "e", "d">>),
        <<"n", "a", "s">>, <<"d", "a", "t", "a">>,
        <<SL, "m", "n", "t", SL, "n", "a", "s">>)

\* add_from_cli that rejects only texts with fewer than three parts
add_from_cli_at_least_3(table, mapping_str) ==
    LET parts == SplitColon(mapping_str) IN
    IF Len(parts) < 3
    THEN [table |-> table,
          ret |-> [kind |-> "InvalidMapping", text |-> mapping_str]]
    ELSE [table |-> add_mapping(table, parts[1], parts[2], parts[3]),
          ret |-> [kind |-> "Ok"]]

\* MappingTable::add_from_cli: the table and the result
add_from_cli(table, mapping_str) ==
    LET parts == SplitColon(mapping_str) IN
    IF Len(parts) # 3
    THEN [table |-> table,
          ret |-> [kind |-> "InvalidMapping", text |-> mapping_str]]
    ELSE [table |-> add_mapping(table, parts[1], parts[2], parts[3]),
          ret |-> [kind |-> "Ok"]]

\* find_mount_point that scans from the last entry back
RECURSIVE find_mount_point_last(_, _, _)
find_mount_point_last(table, host, share) ==
    IF table = <<>> THEN [kind |-> "None"]
    ELSE LET e == table[Len(table)] IN
         IF /\ ToLowercase(e.host) = ToLowercase(host)
            /\ ToLowercase(e.share) = ToLowercase(share)
         THEN [kind |-> "Some", mount_point |-> e.mount_point]
         ELSE find_mount_point_last(SubSeq(table, 1, Len(table) - 1), host, share)

\* find_mount_point that compares the keys as written
RECURSIVE find_mount_point_exact(_, _, _)
find_mount_point_exact(table, host, share) ==
    IF table = <<>> THEN [kind |-> "None"]
    ELSE IF Head(table).host = host /\ Head(table).share = share
         THEN [kind |-> "Some", mount_point |-> Head(table).mount_point]
         ELSE find_mount_point_exact(Tail(table), host, share)

\* MappingTable::find_mount_point: scan from the first entry on
RECURSIVE find_mount_point(_, _, _)
find_mount_point(table, host, share) ==
    IF table = <<>> THEN [kind |-> "None"]
    ELSE IF /\ ToLowercase(Head(table).host) = ToLowercase(host)
            /\ ToLowercase(Head(table).share) = ToLowercase(share)
         THEN [kind |-> "Some", mount_point |-> Head(table).mount_point]
         ELSE find_mount_point(Tail(table), host, share)

\* MappingTable::get_mappings
get_mappings(table) == table

\* serde_json::from_str::<Vec<MountMapping>>: the whole text is decoded before
\* anything is returned; a text that is not a JSON array, or an element that is
\* not an object with the three string fields, is an error.
from_str(doc) ==
    IF ~doc.syntax_ok \/ \E i \in 1..Len(doc.items) : ~doc.items[i].valid
    THEN [kind |-> "JsonError"]
    ELSE [kind |-> "Ok",
          value |-> [i \in 1..Len(doc.items) |->
                        MountMapping(doc.items[i].host, doc.items[i].share,
                                     doc.items[i].mount_point)]]

\* MappingTable::load_from_env; v is the state of UNCPATH_MAPPINGS
load_from_env(table, v) ==
    IF v.present
    THEN LET r == from_str(v.doc) IN
         IF r.kind = "Ok"
         THEN [table |-> table \o r.value, ret |-> [kind |-> "Ok"]]
         ELSE [table |-> table, ret |-> r]
    ELSE [table |-> table, ret |-> [kind |-> "Ok"]]

\* load_from_file that pushes each element as it is decoded
load_from_file_partial(table, f) ==
    IF ~f.exists THEN [table |-> table, ret |-> [kind |-> "IoError"]]
    ELSE IF ~f.doc.syntax_ok THEN [table |-> table, ret |-> [kind |-> "JsonError"]]
    ELSE LET bad == {i \in 1..Len(f.doc.items) : ~f.doc.items[i].valid}
             n == IF bad = {} THEN Len(f.doc.items)
                  ELSE (CHOOSE i \in bad : \A j \in bad : i <= j) - 1
         IN  [table |-> table \o [i \in 1..n |->
                           MountMapping(f.doc.items[i].host, f.doc.items[i].share,
                                        f.doc.items[i].mount_point)],
              ret |-> IF bad = {} THEN [kind |-> "Ok"] ELSE [kind |-> "JsonError"]]

\* MappingTable::load_from_file; f is the state of the file at the path
load_from_file(table, f) ==
    IF ~f.exists THEN [table |-> table, ret |-> [kind |-> "IoError"]]
    ELSE LET r == from_str(f.doc) IN
         IF r.kind = "Ok"
         THEN [table |-> table \o r.value, ret |-> [kind |-> "Ok"]]
         ELSE [table |-> table, ret |-> r]

----------------------------------------------------------------------------
(* Converter *)

\* convert_to_posix that joins the mount point and the path in every case
convert_to_posix_always_join(input, table) ==
    LET unc_path == parse_unc_path(input) IN
    IF unc_path.kind # "Ok" THEN [parsed |-> unc_path, ret |-> unc_path]
    ELSE LET found == find_mount_point(table, unc_path.host, unc_path.share) IN
         IF found.kind = "Some"
         THEN [parsed |-> unc_path,
               ret |-> [kind |-> "Ok",
                        path |-> TrimEndMatchesSlash(found.mount_point)
                                     \o unc_path.path]]
         ELSE [parsed |-> unc_path,
               ret |-> [kind |-> "MappingNotFound",
                        host |-> unc_path.host, share |-> unc_path.share]]

\* convert_to_posix that falls back to the first entry when none matches
convert_to_posix_default(input, table) ==
    LET unc_path == parse_unc_path(input) IN
    IF unc_path.kind # "Ok" THEN [parsed |-> unc_path, ret |-> unc_path]
    ELSE LET found == find_mount_point(table, unc_path.host, unc_path.share)
             mount_point == IF found.kind = "Some" THEN found.mount_point
                            ELSE table[1].mount_point
         IN
         IF found.kind = "Some" \/ table # <<>>
         THEN [parsed |-> unc_path,
               ret |-> [kind |-> "Ok",
                        path |-> IF unc_path.path = <<>> \/ unc_path.path = <<SL>>
                                 THEN mount_point
                                 ELSE TrimEndMatchesSlash(mount_point)
                                          \o unc_path.path]]
         ELSE [parsed |-> unc_path,
               ret |-> [kind |-> "MappingNotFound",
                        host |-> unc_path.host, share |-> unc_path.share]]

\* convert_to_posix: the parse result and the return value
convert_to_posix(input, table) ==
    LET unc_path == parse_unc_path(input) IN
    IF unc_path.kind # "Ok" THEN [parsed |-> unc_path, ret |-> unc_path]
    ELSE LET found == find_mount_point(table, unc_path.host, unc_path.share) IN
         IF found.kind = "Some"
         THEN [parsed |-> unc_path,
               ret |-> [kind |-> "Ok",
                        path |-> IF unc_path.path = <<>> \/ unc_path.path = <<SL>>
                                 THEN found.mount_point
                                 ELSE TrimEndMatchesSlash(found.mount_point)
                                          \o unc_path.path]]
         ELSE [parsed |-> unc_path,
               ret |-> [kind |-> "MappingNotFound",
                        host |-> unc_path.host, share |-> unc_path.share]]

----------------------------------------------------------------------------
(* Inputs of the operations *)

\* arguments of add_mapping
Hosts == {<<"h">>, <<"H">>}
Shares == {<<"s">>, <<"t">>}
MountPoints == {<<SL, "m">>, <<SL, "n", SL>>}

\* arguments of find_mount_point: case variants and keys no entry has
QueryHosts == Hosts \cup {<<"g">>}
QueryShares == Shares \cup {<<"S">>}

Join3(a, b, c) == a \o <<COLON>> \o b \o <<COLON>> \o c

\* --mapping texts: well-formed ones, and ones with 1, 2, 3 (empty) and 4 parts
CliTexts ==
    {Join3(<<"h">>, <<"S">>, <<SL, "m">>),
     Join3(<<"H">>, <<"s">>, <<SL, "n", SL>>),
     Join3(<<"g">>, <<"s">>, <<SL, "n", SL>>),
     <<>>, <<"h", "s">>, <<"h", COLON, "s">>, <<COLON, COLON>>,
     Join3(<<"h">>, <<"s">>, <<"c", COLON, SL, "m">>),
     <<COLON, COLON, COLON>>}

Item(h, s, m) == [valid |-> TRUE, host |-> h, share |-> s, mount_point |-> m]
\* an array element that lacks the mount_point field
BadItem(h, s) == [valid |-> FALSE, host |-> h, share |-> s, mount_point |-> <<>>]

\* JSON texts: not JSON at all, or an array of elements
Docs ==
    {[syntax_ok |-> FALSE, items |-> <<>>],
     [syntax_ok |-> TRUE, items |-> <<>>],
     [syntax_ok |-> TRUE, items |-> <<BadItem(<<"h">>, <<"s">>)>>],
     [syntax_ok |-> TRUE,
      items |-> <<Item(<<"h">>, <<"s">>, <<SL, "n", SL>>),
                  BadItem(<<"H">>, <<"t">>)>>],
     [syntax_ok |-> TRUE,
      items |-> <<Item(<<"H">>, <<"s">>, <<SL, "n", SL>>),
                  Item(<<"h">>, <<"s">>, <<SL, "m">>)>>],
     [syntax_ok |-> TRUE, items |-> <<Item(<<"h">>, <<"t">>, <<SL, "m">>)>>]}

EnvValues == {[present |-> FALSE, doc |-> [syntax_ok |-> FALSE, items |-> <<>>]]}
             \cup {[present |-> TRUE, doc |-> d] : d \in Docs}

FileValues == {[exists |-> FALSE, doc |-> [syntax_ok |-> FALSE, items |-> <<>>]]}
              \cup {[exists |-> TRUE, doc |-> d] : d \in Docs}

\* a reference to host/share/rest in one of the three spellings
Spell(fmt, host, share, segs) ==
    LET sep == IF fmt = "windows" THEN BS ELSE SL
        RECURSIVE Rest(_)
        Rest(ss) == IF ss = <<>> THEN <<>>
                    ELSE <<sep>> \o Head(ss) \o Rest(Tail(ss))
    IN  (CASE fmt = "windows" -> WINDOWS_PREFIX
           [] fmt = "smb" -> SMB_PREFIX
           [] OTHER -> UNIX_PREFIX)
        \o host \o <<sep>> \o share \o Rest(segs)

Formats == {"windows", "smb", "unix"}

\* paths converted between the table operations
SpecInputs ==
    {Spell("windows", <<"H">>, <<"S">>, <<<<"f">>>>),
     Spell("unix", <<"h">>, <<"t">>, <<>>),
     Spell("smb", <<"g">>, <<"s">>, <<<<"f">>>>),
     Spell("windows", <<"S", "E", "R", "V", "E", "R">>,
           <<"S", "H", "A", "R", "E", "D">>, <<<<"f">>>>),
     <<SL, "h", SL, "s">>}

----------------------------------------------------------------------------
(* The table operations, called in any order on one table *)

NoParse == [kind |-> "none"]
NoArg == <<>>

\* the table used as a library: no run of the program is in progress
NoRun ==
    /\ args = [kind |-> "none"]
    /\ environ = [kind |-> "none"]
    /\ pc = "library"
    /\ idx = 0
    /\ stdout = <<>>

Init ==
    /\ mappings \in {new, with_defaults}
    /\ pre = mappings
    /\ op = "init"
    /\ arg = NoArg
    /\ parsed = NoParse
    /\ ret = [kind |-> "Ok"]
    /\ NoRun

AddMapping ==
    \E h \in Hosts, s \in Shares, m \in MountPoints :
        /\ op # "pending"
        /\ Len(mappings) < MaxMappings
        /\ mappings' = add_mapping(mappings, h, s, m)
        /\ pre' = mappings
        /\ op' = "add_mapping"
        /\ arg' = <<h, s, m>>
        /\ parsed' = NoParse
        /\ ret' = [kind |-> "Ok"]
        /\ UNCHANGED run_vars

AddFromCli ==
    \E text \in CliTexts :
        LET r == add_from_cli(mappings, text) IN
        /\ op # "pending"
        /\ Len(r.table) <= MaxMappings
        /\ mappings' = r.table
        /\ pre' = mappings
        /\ op' = "add_from_cli"
        /\ arg' = text
        /\ parsed' = NoParse
        /\ ret' = r.ret
        /\ UNCHANGED run_vars

LoadFromEnv ==
    \E v \in EnvValues :
        LET r == load_from_env(mappings, v) IN
        /\ op # "pending"
        /\ Len(r.table) <= MaxMappings
        /\ mappings' = r.table
        /\ pre' = mappings
        /\ op' = "load_from_env"
        /\ arg' = v
        /\ parsed' = NoParse
        /\ ret' = r.ret
        /\ UNCHANGED run_vars

LoadFromFile ==
    \E f \in FileValues :
        LET r == load_from_file(mappings, f) IN
        /\ op # "pending"
        /\ Len(r.table) <= MaxMappings
        /\ mappings' = r.table
        /\ pre' = mappings
        /\ op' = "load_from_file"
        /\ arg' = f
        /\ parsed' = NoParse
        /\ ret' = r.ret
        /\ UNCHANGED run_vars

FindMountPoint ==
    \E h \in QueryHosts, s \in QueryShares :
        /\ op # "pending"
        /\ ret' = find_mount_point(mappings, h, s)
        /\ pre' = mappings
        /\ op' = "find_mount_point"
        /\ arg' = <<h, s>>
        /\ parsed' = NoParse
        /\ UNCHANGED mappings
        /\ UNCHANGED run_vars

GetMappings ==
    /\ op # "pending"
    /\ ret' = [kind |-> "Ok", value |-> get_mappings(mappings)]
    /\ pre' = mappings
    /\ op' = "get_mappings"
    /\ arg' = NoArg
    /\ parsed' = NoParse
    /\ UNCHANGED mappings
    /\ UNCHANGED run_vars

Convert(input) ==
    LET r == convert_to_posix(input, mappings) IN
    /\ parsed' = r.parsed
    /\ ret' = r.ret
    /\ pre' = mappings
    /\ op' = "convert_to_posix"
    /\ arg' = input
    /\ UNCHANGED mappings
    /\ UNCHANGED run_vars

ConvertToPosix == \E input \in SpecInputs : op # "pending" /\ Convert(input)

Next ==
    \/ AddMapping
    \/ AddFromCli
    \/ LoadFromEnv
    \/ LoadFromFile
    \/ FindMountPoint
    \/ GetMappings
    \/ ConvertToPosix

Spec == Init /\ [][Next]_vars

----------------------------------------------------------------------------
(* The parser and the converter as functions of their input: one call on   *)
(* each input text and table                                               *)

BodyChars == {"h", "H", SL, BS}

\* every text of at most MaxBody characters
Bodies == UNION {[1..n -> BodyChars] : n \in 0..MaxBody}

Prefixes == {WINDOWS_PREFIX, SMB_PREFIX, UNIX_PREFIX, <<>>}

\* whitespace around the text, and a line feed inside it
Pads == {<<<<>>, <<>>>>, <<<<SP>>, <<NL>>>>, <<<<>>, <<NL, "h">>>>}

ConvInputs ==
    {pad[1] \o p \o b \o pad[2] : pad \in Pads, p \in Prefixes, b \in Bodies}

ConvTables ==
    {new,
     add_mapping(new, <<"H">>, <<"h">>, <<SL, "m">>),
     add_mapping(add_mapping(new, <<"h">>, <<"H">>, <<SL, "m", SL, SL>>),
                 <<"H">>, <<"h">>, <<SL, "n">>),
     add_mapping(add_mapping(new, <<"h", "h">>, <<"h">>, <<SL>>),
                 <<"h">>, <<"h">>, <<SL, "m", SL>>)}

InitConv ==
    /\ mappings \in ConvTables
    /\ pre = mappings
    /\ op = "pending"
    /\ arg \in ConvInputs
    /\ parsed = NoParse
    /\ ret = [kind |-> "Ok"]
    /\ NoRun

ConvertPending == op = "pending" /\ Convert(arg)

ParsePending ==
    /\ op = "pending"
    /\ parsed' = parse_unc_path(arg)
    /\ ret' = parsed'
    /\ pre' = mappings
    /\ op' = "parse_unc_path"
    /\ UNCHANGED <<mappings, arg>>
    /\ UNCHANGED run_vars

NextConv == ConvertPending \/ ParsePending

SpecConv == InitConv /\ [][NextConv]_vars

----------------------------------------------------------------------------
(* Properties of the mapping table *)

\* equality up to the case of ASCII letters
EqIgnoreCase(a, b) ==
    /\ Len(a) = Len(b)
    /\ \A i \in 1..Len(a) :
          \/ a[i] = b[i]
          \/ \E k \in 1..Len(UPPER) : {a[i], b[i]} = {UPPER[k], LOWER[k]}

\* the insertion indexes of the entries with the key host/share
MatchIdx(table, host, share) ==
    {i \in 1..Len(table) : /\ EqIgnoreCase(table[i].host, host)
                           /\ EqIgnoreCase(table[i].share, share)}

Least(I) == CHOOSE i \in I : \A j \in I : i <= j

\* what a lookup of host/share is to return
FirstMatch(table, host, share) ==
    LET I == MatchIdx(table, host, share) IN
    IF I = {} THEN [kind |-> "None"]
    ELSE [kind |-> "Some", mount_point |-> table[Least(I)].mount_point]

IsPrefix(a, b) == Len(a) <= Len(b) /\ SubSeq(b, 1, Len(a)) = a

Appends == {"add_mapping", "add_from_cli", "load_from_env", "load_from_file"}

\* C1: a lookup returns the mount point of the entry with the smallest
\* insertion index whose host and share equal the query up to case (nothing
\* when there is none), and an append of an entry whose key the table already
\* holds is accepted and leaves the result of looking that key up as it was.
C1_FirstMatchWins ==
    /\ op = "find_mount_point" => ret = FirstMatch(mappings, arg[1], arg[2])
    /\ op \in Appends =>
          \A h \in QueryHosts, s \in QueryShares :
              MatchIdx(pre, h, s) # {} =>
                  find_mount_point(mappings, h, s) = FirstMatch(pre, h, s)
    /\ op = "add_mapping" =>
          mappings = pre \o <<MountMapping(arg[1], arg[2], arg[3])>>

\* a lookup of a key that two entries with different mount points hold
C1_Witness ==
    /\ op = "find_mount_point"
    /\ ret.kind = "Some"
    /\ \E i, j \in MatchIdx(mappings, arg[1], arg[2]) :
          i < j /\ mappings[i].mount_point # mappings[j].mount_point

CountColons(s) == Cardinality({i \in 1..Len(s) : s[i] = COLON})

\* C8: add_from_cli on a text with other than two colons (not exactly three
\* parts) returns InvalidMapping with the text and leaves the table as it
\* was; on exactly three parts it appends the one entry whose fields, joined
\* by colons, are the text.
C8_AddFromCli ==
    op = "add_from_cli" =>
        IF CountColons(arg) # 2
        THEN /\ ret = [kind |-> "InvalidMapping", text |-> arg]
             /\ mappings = pre
        ELSE /\ ret = [kind |-> "Ok"]
             /\ Len(mappings) = Len(pre) + 1
             /\ SubSeq(mappings, 1, Len(pre)) = pre
             /\ LET e == mappings[Len(mappings)] IN
                   /\ Join3(e.host, e.share, e.mount_point) = arg
                   /\ CountColons(e.host) = 0
                   /\ CountColons(e.share) = 0
                   /\ CountColons(e.mount_point) = 0

\* a text of four parts rejected on a table that holds entries
C8_Witness ==
    /\ op = "add_from_cli"
    /\ CountColons(arg) = 3
    /\ ret.kind = "InvalidMapping"
    /\ pre # <<>>

Reads == {"find_mount_point", "get_mappings", "convert_to_posix"}

\* C10: every operation leaves the entries the table had as a prefix of the
\* table; lookups, listings and conversions leave the table as it was; a load
\* that fails or finds no variable appends nothing, and one that succeeds
\* appends the decoded elements in their order.
C10_AppendOnly ==
    /\ IsPrefix(pre, mappings)
    /\ op \in Reads => mappings = pre
    /\ op = "get_mappings" => ret.value = pre
    /\ op \in {"load_from_env", "load_from_file"} =>
          IF \/ op = "load_from_env" /\ ~arg.present
             \/ op = "load_from_file" /\ ~arg.exists
             \/ ~arg.doc.syntax_ok
             \/ \E i \in 1..Len(arg.doc.items) : ~arg.doc.items[i].valid
          THEN mappings = pre
          ELSE /\ ret = [kind |-> "Ok"]
               /\ Len(mappings) = Len(pre) + Len(arg.doc.items)
               /\ \A i \in 1..Len(arg.doc.items) :
                     /\ mappings[Len(pre) + i].host = arg.doc.items[i].host
                     /\ mappings[Len(pre) + i].share = arg.doc.items[i].share
                     /\ mappings[Len(pre) + i].mount_point
                            = arg.doc.items[i].mount_point

\* a file whose second element is malformed, loaded into a table with entries
C10_Witness ==
    /\ op = "load_from_file"
    /\ ret.kind = "JsonError"
    /\ arg.doc.syntax_ok
    /\ Len(arg.doc.items) = 2
    /\ arg.doc.items[1].valid
    /\ pre # <<>>
    /\ mappings = pre

----------------------------------------------------------------------------
(* Properties of the parser and the converter *)

\* the text without the whitespace at its two ends
Trimmed(s) ==
    LET I == {i \in 1..Len(s) : ~IsWhitespace(s[i])} IN
    IF I = {} THEN <<>>
    ELSE SubSeq(s, Least(I), CHOOSE i \in I : \A j \in I : j <= i)

\* the grammar the first characters of the trimmed text select
GrammarOf(t) ==
    IF Len(t) >= 2 /\ t[1] = BS /\ t[2] = BS THEN "windows"
    ELSE IF Len(t) >= 6 /\ SubSeq(t, 1, 6) = SMB_PREFIX THEN "smb"
    ELSE IF Len(t) >= 2 /\ t[1] = SL /\ t[2] = SL THEN "unix"
    ELSE "none"

PrefixLen(g) == IF g = "smb" THEN 6 ELSE IF g = "none" THEN 0 ELSE 2
SepOf(g) == IF g = "windows" THEN BS ELSE SL

\* the parts of s between the occurrences of c
RECURSIVE SplitOn(_, _)
SplitOn(s, c) ==
    LET I == {i \in 1..Len(s) : s[i] = c} IN
    IF I = {} THEN <<s>>
    ELSE <<SubSeq(s, 1, Least(I) - 1)>>
             \o SplitOn(SubSeq(s, Least(I) + 1, Len(s)), c)

HasSeparator(s) == \E i \in 1..Len(s) : s[i] \in {SL, BS}

\* the tokens of a text that is a reference in one of the three spellings:
\* the prefix, then host, share and segments, none holding a separator
PartsOf(t) == SplitOn(SubSeq(t, PrefixLen(GrammarOf(t)) + 1, Len(t)),
                      SepOf(GrammarOf(t)))

IsReference(t) ==
    /\ GrammarOf(t) # "none"
    /\ Len(PartsOf(t)) >= 2
    /\ \A k \in 1..Len(PartsOf(t)) : ~HasSeparator(PartsOf(t)[k])

RECURSIVE SlashJoin(_)
SlashJoin(segs) ==
    IF segs = <<>> THEN <<>> ELSE <<SL>> \o Head(segs) \o SlashJoin(Tail(segs))

SameOutcome(a, b) == a.kind = b.kind /\ (a.kind = "Ok" => a.path = b.path)

Converted == op = "convert_to_posix"
ParsedOk == op \in {"convert_to_posix", "parse_unc_path"} /\ parsed.kind = "Ok"

\* C2: the three spellings of one reference (host, share and segments free of
\* separators) convert to the same path or fail with the same kind of error,
\* and when the first entry for host/share has a mount point that ends in no
\* slash the path is that mount point followed by the segments, each after a
\* slash.
C2_SpellingsAgree ==
    Converted /\ IsReference(arg) =>
        LET parts == PartsOf(arg)
            segs == SubSeq(parts, 3, Len(parts))
            found == FirstMatch(mappings, parts[1], parts[2])
        IN  /\ \A fmt \in Formats :
                  SameOutcome(
                      convert_to_posix(Spell(fmt, parts[1], parts[2], segs),
                                       mappings).ret,
                      ret)
            /\ ( /\ ret.kind = "Ok"
                 /\ found.kind = "Some"
                 /\ segs # <<>> /\ segs # <<<<>>>>
                 /\ found.mount_point # <<>>
                 /\ found.mount_point[Len(found.mount_point)] # SL )
                => ret.path = found.mount_point \o SlashJoin(segs)

\* a Windows reference with a segment, converted to a path
C2_Witness ==
    /\ Converted
    /\ IsReference(arg)
    /\ GrammarOf(arg) = "windows"
    /\ Len(PartsOf(arg)) = 3
    /\ PartsOf(arg)[3] # <<>>
    /\ ret.kind = "Ok"

\* C3: when the residual path is empty or "/" and an entry matches, the
\* result is the mount point of the first matching entry, character for
\* character.
C3_RootVerbatim ==
    ( /\ Converted
      /\ parsed.kind = "Ok"
      /\ parsed.path \in {<<>>, <<SL>>}
      /\ MatchIdx(mappings, parsed.host, parsed.share) # {} )
    => ret = [kind |-> "Ok",
              path |-> FirstMatch(mappings, parsed.host, parsed.share).mount_point]

\* a root-only reference converted to a mount point that ends in a slash
C3_Witness ==
    /\ Converted
    /\ parsed.kind = "Ok"
    /\ parsed.path = <<>>
    /\ ret.kind = "Ok"
    /\ ret.path # <<>>
    /\ ret.path[Len(ret.path)] = SL

\* the mount point without one trailing slash
StripOneSlash(m) ==
    IF m # <<>> /\ m[Len(m)] = SL THEN SubSeq(m, 1, Len(m) - 1) ELSE m

\* the longest prefix of the mount point that does not end in a slash
StripAllSlashes(m) ==
    LET K == {k \in 0..Len(m) : k = 0 \/ m[k] # SL} IN
    SubSeq(m, 1, CHOOSE k \in K : \A j \in K : j <= k)

\* the residual of the trimmed input: what follows host, separator and share
Residual(t, host, share) ==
    LET r == SubSeq(t, PrefixLen(GrammarOf(t)) + Len(host) + Len(share) + 2, Len(t))
    IN  IF GrammarOf(t) = "windows"
        THEN [i \in 1..Len(r) |-> IF r[i] = BS THEN SL ELSE r[i]]
        ELSE r

Joined ==
    /\ Converted
    /\ parsed.kind = "Ok"
    /\ parsed.path \notin {<<>>, <<SL>>}
    /\ ret.kind = "Ok"

\* C4 as stated: the result is the mount point less at most one trailing
\* slash, followed by the residual path.
C4_SingleSlashStripped ==
    Joined =>
        ret.path = StripOneSlash(
                       FirstMatch(mappings, parsed.host, parsed.share).mount_point)
                   \o parsed.path

\* C4 amended: the result is the mount point less all its trailing slashes,
\* followed by the residual of the input as written (backslashes of a Windows
\* reference turned into slashes), with no slash collapsed or segment resolved.
C4_AllTrailingSlashesStripped ==
    Joined =>
        ret.path = StripAllSlashes(
                       FirstMatch(mappings, parsed.host, parsed.share).mount_point)
                   \o Residual(Trimmed(arg), parsed.host, parsed.share)

\* a mount point that ends in two slashes joined to a path with a doubled slash
C4_Witness ==
    /\ Joined
    /\ LET m == FirstMatch(mappings, parsed.host, parsed.share).mount_point IN
          Len(m) >= 2 /\ m[Len(m)] = SL /\ m[Len(m) - 1] = SL
    /\ Len(parsed.path) >= 2 /\ parsed.path[1] = SL /\ parsed.path[2] = SL

NonEmptyWithout(s, C) == s # <<>> /\ \A i \in 1..Len(s) : s[i] \notin C

\* C5 as stated: a parsed host and share are non-empty and hold neither a
\* slash nor a backslash.
C5_NoSeparators ==
    ParsedOk => /\ NonEmptyWithout(parsed.host, {SL, BS})
                /\ NonEmptyWithout(parsed.share, {SL, BS})

\* C5 amended: a parsed host and share are non-empty and do not hold the
\* separator of the grammar the prefix selected (no backslash in a Windows
\* reference, no slash in an SMB or Unix-style one).
C5_NoOwnSeparator ==
    ParsedOk => /\ NonEmptyWithout(parsed.host, {SepOf(GrammarOf(Trimmed(arg)))})
                /\ NonEmptyWithout(parsed.share, {SepOf(GrammarOf(Trimmed(arg)))})

\* an SMB reference parsed to a host that holds a backslash
C5_Witness ==
    /\ ParsedOk
    /\ GrammarOf(Trimmed(arg)) = "smb"
    /\ \E i \in 1..Len(parsed.host) : parsed.host[i] = BS

\* the spellings of s that differ from it in the case of letters only
CharVariants(c) ==
    {c} \cup {UPPER[k] : k \in {k \in 1..Len(UPPER) : LOWER[k] = c}}
        \cup {LOWER[k] : k \in {k \in 1..Len(UPPER) : UPPER[k] = c}}

RECURSIVE CaseVariants(_)
CaseVariants(s) ==
    IF s = <<>> THEN {<<>>}
    ELSE {<<c>> \o r : c \in CharVariants(Head(s)), r \in CaseVariants(Tail(s))}

\* C6: the parser returns host and share as they are written in the input,
\* in their case; and when an entry has the parsed host and share up to case,
\* the conversion finds a mount point, and a lookup of every other case
\* variant of the two keys returns that same mount point.
C6_CaseInsensitiveLookup ==
    Converted /\ parsed.kind = "Ok" =>
        LET t == Trimmed(arg)
            n == PrefixLen(GrammarOf(t))
            h == Len(parsed.host)
        IN  /\ SubSeq(t, n + 1, n + h) = parsed.host
            /\ t[n + h + 1] = SepOf(GrammarOf(t))
            /\ SubSeq(t, n + h + 2, n + h + 1 + Len(parsed.share)) = parsed.share
            /\ MatchIdx(mappings, parsed.host, parsed.share) # {} =>
                  /\ ret.kind = "Ok"
                  /\ \A hv \in CaseVariants(parsed.host),
                        sv \in CaseVariants(parsed.share) :
                        find_mount_point(mappings, hv, sv)
                            = FirstMatch(mappings, parsed.host, parsed.share)

\* a reference found through an entry whose host and share are written in
\* another case
C6_Witness ==
    /\ Converted
    /\ parsed.kind = "Ok"
    /\ ret.kind = "Ok"
    /\ LET e == mappings[Least(MatchIdx(mappings, parsed.host, parsed.share))] IN
          e.host # parsed.host /\ e.share # parsed.share

\* C7: when the input parses and no entry has the parsed host and share up
\* to case, the conversion fails with MappingNotFound carrying the parsed
\* host and share.
C7_MappingNotFound ==
    ( /\ Converted
      /\ parsed.kind = "Ok"
      /\ MatchIdx(mappings, parsed.host, parsed.share) = {} )
    => ret = [kind |-> "MappingNotFound",
              host |-> parsed.host, share |-> parsed.share]

\* a reference that no entry of a table with entries matches
C7_Witness ==
    /\ Converted
    /\ parsed.kind = "Ok"
    /\ mappings # <<>>
    /\ ret.kind = "MappingNotFound"

\* after the prefix of grammar g, host or share is empty or missing
LacksHostOrShare(t, g) ==
    LET r == SubSeq(t, PrefixLen(g) + 1, Len(t))
        I == {i \in 1..Len(r) : r[i] = SepOf(g)}
    IN  \/ I = {}
        \/ Least(I) = 1
        \/ Least(I) = Len(r)
        \/ r[Least(I) + 1] = SepOf(g)

\* C9: the trimmed input selects one grammar by its prefix; a failure is an
\* InvalidFormat that names that grammar (or none, when no prefix matches)
\* and carries the trimmed input; an input whose prefix matches and whose
\* host or share is empty or missing fails; an input without any of the
\* prefixes fails.
C9_PrefixDispatch ==
    op \in {"convert_to_posix", "parse_unc_path"} =>
        LET t == Trimmed(arg)
            g == GrammarOf(t)
        IN  /\ parsed.kind \in {"Ok", "InvalidFormat"}
            /\ parsed.kind = "InvalidFormat" =>
                  parsed = [kind |-> "InvalidFormat", grammar |-> g, text |-> t]
            /\ g = "none" => parsed.kind = "InvalidFormat"
            /\ (g # "none" /\ LacksHostOrShare(t, g)) =>
                  parsed.kind = "InvalidFormat"
            /\ op = "parse_unc_path" => ret = parsed
            /\ (op = "convert_to_posix" /\ parsed.kind = "InvalidFormat") =>
                  ret = parsed

\* an input with whitespace around it, the Windows prefix and no share
C9_Witness ==
    /\ op = "parse_unc_path"
    /\ arg # Trimmed(arg)
    /\ GrammarOf(Trimmed(arg)) = "windows"
    /\ LacksHostOrShare(Trimmed(arg), "windows")
    /\ Len(Trimmed(arg)) > 2
    /\ ret.kind = "InvalidFormat"

----------------------------------------------------------------------------
(* One run of the program: run() of main.rs, statement by statement.       *)
(* pc = "failed" is run() returning Err: main prints the error in ret to   *)
(* standard error and exits with status 1.                                 *)

\* most --mapping flags on a command line
MaxCli == 2

SERVER == <<"s", "e", "r", "v", "e", "r">>
SHARED == <<"s", "h", "a", "r", "e", "d">>

\* --mapping texts: one for the key of a default entry, one for a key the
\* environment may hold, one malformed
RunCliTexts ==
    {Join3(<<"S", "E", "R", "V", "E", "R">>, SHARED, <<SL, "c">>),
     Join3(<<"h">>, <<"s">>, <<SL, "c", SL>>),
     <<"h", COLON, "s">>}

RunCliLists == UNION {[1..n -> RunCliTexts] : n \in 0..MaxCli}

Absent == [present |-> FALSE, doc |-> [syntax_ok |-> FALSE, items |-> <<>>]]
Missing == [exists |-> FALSE, doc |-> [syntax_ok |-> FALSE, items |-> <<>>]]

RunEnvValues ==
    {Absent,
     [present |-> TRUE, doc |-> [syntax_ok |-> FALSE, items |-> <<>>]],
     [present |-> TRUE,
      doc |-> [syntax_ok |-> TRUE,
               items |-> <<Item(<<"h">>, <<"s">>, <<SL, "e">>)>>]],
     [present |-> TRUE,
      doc |-> [syntax_ok |-> TRUE,
               items |-> <<Item(<<"h">>, <<"s">>, <<SL, "e">>),
                           BadItem(<<"g">>, <<"s">>)>>]]}

RunFileValues ==
    {Missing,
     [exists |-> TRUE, doc |-> [syntax_ok |-> TRUE, items |-> <<BadItem(<<"h">>, <<"s">>)>>]],
     [exists |-> TRUE,
      doc |-> [syntax_ok |-> TRUE,
               items |-> <<Item(<<"H">>, <<"S">>, <<SL, "f">>)>>]],
     [exists |-> TRUE,
      doc |-> [syntax_ok |-> TRUE,
               items |-> <<Item(SERVER, SHARED, <<SL, "f", SL>>),
                           Item(<<"g">>, <<"s">>, <<SL, "f">>)>>]]}

RunPaths ==
    {Spell("windows", SERVER, SHARED, <<<<"f">>>>),
     Spell("unix", <<"h">>, <<"s">>, <<<<"f">>>>),
     Spell("smb", <<"g">>, <<"s">>, <<>>),
     <<SL, "h", SL, "s">>}

\* struct Args; file is whether --file is given
ArgsValues ==
    [path : RunPaths, mapping : RunCliLists, file : BOOLEAN,
     no_defaults : BOOLEAN, list : BOOLEAN]

InitRun ==
    /\ args \in ArgsValues
    /\ environ \in [var : RunEnvValues, file : RunFileValues]
    /\ ~args.file => environ.file = Missing
    /\ pc = "build"
    /\ idx = 1
    /\ stdout = <<>>
    /\ mappings = new
    /\ pre = new
    /\ op = "init"
    /\ arg = NoArg
    /\ parsed = NoParse
    /\ ret = [kind |-> "Ok"]

\* let mut table = if args.no_defaults { new() } else { with_defaults() }
RunBuild ==
    /\ pc = "build"
    /\ mappings' = IF args.no_defaults THEN new ELSE with_defaults
    /\ pre' = mappings'
    /\ pc' = "env"
    /\ UNCHANGED <<op, arg, parsed, ret, args, environ, idx, stdout>>

\* table.load_from_env()?
RunLoadEnv ==
    LET r == load_from_env(mappings, environ.var) IN
    /\ pc = "env"
    /\ mappings' = r.table
    /\ pre' = mappings
    /\ op' = "load_from_env"
    /\ arg' = environ.var
    /\ ret' = r.ret
    /\ pc' = IF r.ret.kind = "Ok" THEN "file" ELSE "failed"
    /\ UNCHANGED <<parsed, args, environ, idx, stdout>>

\* where run() goes once the table holds the sources before the --mapping at k
AfterFile(k) == IF k <= Len(args.mapping) THEN "cli" ELSE "output"

\* if let Some(file_path) = &args.file { table.load_from_file(file_path)?; }
RunLoadFile ==
    /\ pc = "file"
    /\ IF args.file
       THEN LET r == load_from_file(mappings, environ.file) IN
            /\ mappings' = r.table
            /\ pre' = mappings
            /\ op' = "load_from_file"
            /\ arg' = environ.file
            /\ ret' = r.ret
            /\ pc' = IF r.ret.kind = "Ok" THEN AfterFile(idx) ELSE "failed"
       ELSE /\ pc' = AfterFile(idx)
            /\ UNCHANGED <<mappings, pre, op, arg, ret>>
    /\ UNCHANGED <<parsed, args, environ, idx, stdout>>

\* a loop that puts each --mapping in front of the entries loaded so far
RunAddCli_prepend ==
    LET r == add_from_cli(<<>>, args.mapping[idx]) IN
    /\ pc = "cli"
    /\ mappings' = r.table \o mappings
    /\ pre' = mappings
    /\ op' = "add_from_cli"
    /\ arg' = args.mapping[idx]
    /\ ret' = r.ret
    /\ idx' = idx + 1
    /\ pc' = IF r.ret.kind = "Ok" THEN AfterFile(idx + 1) ELSE "failed"
    /\ UNCHANGED <<parsed, args, environ, stdout>>

\* for mapping_str in &args.mapping { table.add_from_cli(mapping_str)?; }
RunAddCli ==
    LET r == add_from_cli(mappings, args.mapping[idx]) IN
    /\ pc = "cli"
    /\ mappings' = r.table
    /\ pre' = mappings
    /\ op' = "add_from_cli"
    /\ arg' = args.mapping[idx]
    /\ ret' = r.ret
    /\ idx' = idx + 1
    /\ pc' = IF r.ret.kind = "Ok" THEN AfterFile(idx + 1) ELSE "failed"
    /\ UNCHANGED <<parsed, args, environ, stdout>>

HEADER_LINE == <<"C", "o", "n", "f", "i", "g", "u", "r", "e", "d", SP,
                 "m", "a", "p", "p", "i", "n", "g", "s", COLON>>

\* format!("  \\\\{}\\{} -> {}", host, share, mount_point)
MappingLine(m) ==
    <<SP, SP, BS, BS>> \o m.host \o <<BS>> \o m.share
        \o <<SP, "-", ">", SP>> \o m.mount_point

\* if args.list { println!(...); for mapping in table.get_mappings() {...}; return Ok(()) }
RunList ==
    /\ pc = "output"
    /\ args.list
    /\ stdout' = <<HEADER_LINE>>
          \o [k \in 1..Len(get_mappings(mappings)) |->
                 MappingLine(get_mappings(mappings)[k])]
    /\ pre' = mappings
    /\ op' = "get_mappings"
    /\ arg' = NoArg
    /\ ret' = [kind |-> "Ok"]
    /\ pc' = "done"
    /\ UNCHANGED <<mappings, parsed, args, environ, idx>>

\* let posix_path = convert_to_posix(&args.path, &table)?; println!("{}", posix_path)
RunConvert ==
    LET r == convert_to_posix(args.path, mappings) IN
    /\ pc = "output"
    /\ ~args.list
    /\ parsed' = r.parsed
    /\ ret' = r.ret
    /\ pre' = mappings
    /\ op' = "convert_to_posix"
    /\ arg' = args.path
    /\ stdout' = IF r.ret.kind = "Ok" THEN <<r.ret.path>> ELSE stdout
    /\ pc' = IF r.ret.kind = "Ok" THEN "done" ELSE "failed"
    /\ UNCHANGED <<mappings, args, environ, idx>>

NextRun ==
    \/ RunBuild
    \/ RunLoadEnv
    \/ RunLoadFile
    \/ RunAddCli
    \/ RunList
    \/ RunConvert

SpecRun == InitRun /\ [][NextRun]_vars

----------------------------------------------------------------------------
(* Properties of a run *)

Decodes(doc) ==
    doc.syntax_ok /\ \A k \in 1..Len(doc.items) : doc.items[k].valid

EntriesOf(doc) ==
    [k \in 1..Len(doc.items) |->
        [host |-> doc.items[k].host, share |-> doc.items[k].share,
         mount_point |-> doc.items[k].mount_point]]

\* what each source contributes, in the order of the claim
DefaultPart == IF args.no_defaults THEN <<>> ELSE with_defaults
EnvPart == IF environ.var.present THEN EntriesOf(environ.var.doc) ELSE <<>>
FilePart == IF args.file THEN EntriesOf(environ.file.doc) ELSE <<>>
CliPart(n) ==
    [k \in 1..n |->
        LET parts == SplitOn(args.mapping[k], COLON) IN
        [host |-> parts[1], share |-> parts[2], mount_point |-> parts[3]]]

\* the sources that fail
EnvFails == environ.var.present /\ ~Decodes(environ.var.doc)
FileFails == args.file /\ (~environ.file.exists \/ ~Decodes(environ.file.doc))
BadCli == {k \in 1..Len(args.mapping) : CountColons(args.mapping[k]) # 2}

JoinPath(m, path) ==
    IF path \in {<<>>, <<SL>>} THEN m ELSE StripAllSlashes(m) \o path

\* C11: run() builds the table from the defaults (unless --no-defaults), the
\* environment variable, the file and the --mapping texts, in that order;
\* it stops at the first of these that fails, or at a failing conversion,
\* with nothing printed and no conversion made after a failing source; and
\* when the defaults or the environment hold the key of the path, the line
\* printed is the path converted through them alone, whatever the file and
\* the --mapping texts hold for that key.
C11_RunOrder ==
    /\ pc = "env" => mappings = DefaultPart
    /\ pc = "file" => ~EnvFails /\ mappings = DefaultPart \o EnvPart
    /\ pc = "cli" =>
          /\ ~EnvFails /\ ~FileFails
          /\ \A k \in BadCli : idx <= k
          /\ mappings = DefaultPart \o EnvPart \o FilePart \o CliPart(idx - 1)
    /\ (pc \in {"output", "done"} \/ (pc = "failed" /\ op = "convert_to_posix")) =>
          /\ ~EnvFails /\ ~FileFails /\ BadCli = {}
          /\ mappings = DefaultPart \o EnvPart \o FilePart
                             \o CliPart(Len(args.mapping))
    /\ pc \in {"build", "env", "file", "cli", "output"} =>
          stdout = <<>> /\ parsed = NoParse
    /\ pc = "failed" =>
          /\ stdout = <<>>
          /\ ret.kind # "Ok"
          /\ IF EnvFails
             THEN op = "load_from_env" /\ mappings = DefaultPart
             ELSE IF FileFails
             THEN op = "load_from_file" /\ mappings = DefaultPart \o EnvPart
             ELSE IF BadCli # {}
             THEN /\ op = "add_from_cli"
                  /\ arg = args.mapping[Least(BadCli)]
                  /\ mappings = DefaultPart \o EnvPart \o FilePart
                                     \o CliPart(Least(BadCli) - 1)
             ELSE op = "convert_to_posix" /\ ~args.list
          /\ op # "convert_to_posix" => parsed = NoParse
    /\ (pc = "done" /\ args.list) =>
          /\ parsed = NoParse
          /\ Len(stdout) = 1 + Len(mappings)
          /\ stdout[1] = HEADER_LINE
    /\ (pc = "done" /\ ~args.list) =>
          /\ parsed.kind = "Ok"
          /\ Len(stdout) = 1
          /\ MatchIdx(DefaultPart \o EnvPart, parsed.host, parsed.share) # {} =>
                stdout[1] = JoinPath(
                    FirstMatch(DefaultPart \o EnvPart,
                               parsed.host, parsed.share).mount_point,
                    parsed.path)

\* a path printed through a default or environment entry while the file or a
\* --mapping text gives its key another mount point
C11_Witness ==
    /\ pc = "done"
    /\ ~args.list
    /\ MatchIdx(DefaultPart \o EnvPart, parsed.host, parsed.share) # {}
    /\ \E k \in MatchIdx(mappings, parsed.host, parsed.share) :
          /\ k > Len(DefaultPart \o EnvPart \o FilePart)
          /\ mappings[k].mount_point
                 # FirstMatch(mappings, parsed.host, parsed.share).mount_point

====
